---- MODULE Spec2Model ----
(***************************************************************************)
(* Model of src/src/stores/audioStore.ts: a module-level singleton that    *)
(* lazily builds a Web Audio analysis graph, wires media elements into it  *)
(* once, and extracts frequency data from it.                              *)
(*                                                                         *)
(* Module state is the module's `let`/`const` bindings.  The host runtime  *)
(* (AudioContext, its nodes, the media elements, the console) is modelled  *)
(* by the variables the module's calls read or change.  Any host call may  *)
(* throw: each operation takes the index of the host call that throws      *)
(* (0 = none) as an input.                                                 *)
(***************************************************************************)
EXTENDS Integers, Sequences, FiniteSets, TLC

\* ---------------------------------------------------------------- bounds
MaxElements == 1        \* media elements the callers hold
MaxResume == 2          \* resume requests counted before the model stops issuing them

\* ------------------------------------------------------ program constants
NULL == 0               \* null / undefined
FftSize == 512          \* analyser.fftSize
ByteLimit == 256        \* a Uint8Array element is 0..255

Elements == 1..MaxElements

VARIABLES
    env,               \* "nowindow" | "noctor" | "ok": what the host exposes
    audioContext,      \* NULL or the id of the context
    analyser,          \* NULL or the index of the main analyser in analyserNodes
    analyserL,         \* NULL or the index of the left analyser
    analyserR,         \* NULL or the index of the right analyser
    splitter,          \* NULL or the id of the splitter
    dataArray,         \* NullArray or the mono buffer (a Uint8Array)
    dataArrayL,        \* NullArray or the left buffer
    dataArrayR,        \* NullArray or the right buffer
    isAudioContextReady, \* the nanostores atom
    connectedElements, \* the WeakSet, as the set of its members
    \* host runtime
    nCtx,              \* contexts the constructor has returned
    analyserNodes,     \* analysers createAnalyser has returned: sequence of [fftSize]
    nSplitters,        \* splitters createChannelSplitter has returned
    readySets,         \* calls of isAudioContextReady.set(true)
    ctxState,          \* audioContext.state: "none" before construction
    nResume,           \* resume() requests issued
    edges,             \* connections of the graph: set of [from, to, out]
    srcCount,          \* per element: MediaElementAudioSourceNodes created for it
    crossOrigin,       \* per element: its crossOrigin attribute ("" = unset)
    onplay,            \* per element: its onplay handler
    held,              \* the array a caller kept from a getAudioData call
    last               \* the last operation: what it was given, did and returned

moduleVars == <<audioContext, analyser, analyserL, analyserR, splitter,
                dataArray, dataArrayL, dataArrayR, isAudioContextReady,
                connectedElements>>
hostVars == <<nCtx, analyserNodes, nSplitters, readySets, ctxState,
              nResume, edges, srcCount, crossOrigin, onplay>>
vars == <<env, moduleVars, hostVars, held, last>>

\* ------------------------------------------------------------- helpers
Node(kind, el, n) == [kind |-> kind, el |-> el, n |-> n]
Destination == Node("destination", 0, 0)
AnalyserNodeOf(i) == Node("analyser", 0, i)
SplitterNodeOf(i) == Node("splitter", 0, i)
SourceNodeOf(e, k) == Node("source", e, k)
Edge(from, to, out) == [from |-> from, to |-> to, out |-> out]

\* A Uint8Array is held run-length encoded: the sequence of its maximal runs
\* [n |-> length, v |-> byte], so equal arrays have equal encodings.  The empty
\* array is <<>>.  NullArray stands for null in a variable that otherwise holds
\* an array (no array has a run of length 0).
NullArray == << [n |-> 0, v |-> 0] >>
Run(n, v) == [n |-> n, v |-> v]

\* The encoding of the concatenation of the arrays encoded by a and b.
Join(a, b) ==
    IF a = <<>> THEN b
    ELSE IF b = <<>> THEN a
    ELSE IF a[Len(a)].v = b[1].v
         THEN SubSeq(a, 1, Len(a) - 1)
              \o << Run(a[Len(a)].n + b[1].n, b[1].v) >>
              \o SubSeq(b, 2, Len(b))
         ELSE a \o b

\* The encoding of the array whose bytes are f[lo], ..., f[hi].
RECURSIVE Encode(_, _, _)
Encode(f, lo, hi) ==
    IF lo > hi THEN <<>>
    ELSE IF lo = hi THEN << Run(1, f[lo]) >>
    ELSE LET mid == (lo + hi) \div 2
         IN  Join(Encode(f, lo, mid), Encode(f, mid + 1, hi))

\* f[lo] + ... + f[hi]
RECURSIVE SumRange(_, _, _)
SumRange(f, lo, hi) ==
    IF lo > hi THEN 0
    ELSE IF lo = hi THEN f[lo]
    ELSE LET mid == (lo + hi) \div 2
         IN  SumRange(f, lo, mid) + SumRange(f, mid + 1, hi)

\* a.length
ArrayLength(a) == SumRange([k \in 1..Len(a) |-> a[k].n], 1, Len(a))

\* a.subarray(0, m) and a.subarray(m), for 0 <= m
RECURSIVE TakeRuns(_, _)
TakeRuns(a, m) ==
    IF m = 0 \/ a = <<>> THEN <<>>
    ELSE IF a[1].n >= m THEN << Run(m, a[1].v) >>
    ELSE << a[1] >> \o TakeRuns(Tail(a), m - a[1].n)
RECURSIVE DropRuns(_, _)
DropRuns(a, m) ==
    IF m = 0 \/ a = <<>> THEN a
    ELSE IF a[1].n > m THEN << Run(a[1].n - m, a[1].v) >> \o Tail(a)
    ELSE DropRuns(Tail(a), m - a[1].n)
TakeBytes(a, m) == IF m >= ArrayLength(a) THEN a ELSE TakeRuns(a, m)
DropBytes(a, m) == IF m >= ArrayLength(a) THEN <<>> ELSE DropRuns(a, m)

Zeros(n) == IF n = 0 THEN <<>> ELSE << Run(n, 0) >>   \* new Uint8Array(n)
\* Mutant: an analyser reports as many bins as its window has samples.
FrequencyBinCount_Window(fft) == fft
FrequencyBinCount(fft) == fft \div 2              \* AnalyserNode.frequencyBinCount

\* Mutant: the buffer is sized by the window, not by the bin count.
BufferFor_Window(fft) == Zeros(fft)
\* new Uint8Array(analyser.frequencyBinCount) for an analyser of window fft
BufferFor(fft) == Zeros(FrequencyBinCount(fft))

\* An array as a caller holds it: a reference to the module's mono buffer
\* ("dataArray"), or an object of its own ("new") with the bytes it holds.
\* "none": the caller holds nothing.
RefTo(ref, bytes) == [ref |-> ref, bytes |-> bytes]
NoRef == RefTo("none", <<>>)

Last(op, arg, ret, threw, calls, logs) ==
    [op |-> op, arg |-> arg, ret |-> ret, threw |-> threw,
     calls |-> calls, logs |-> logs]

\* Mutant: the check for a missing window is dropped.
HasWindow_Unchecked == TRUE
\* typeof window === 'undefined' is false
HasWindow == env # "nowindow"
\* Mutant: the check for a missing constructor is dropped.
HasAudioCtor_Unchecked == TRUE
\* window.AudioContext || window.webkitAudioContext is truthy
HasAudioCtor == env = "ok"

\* ------------------------------------------------------ initAudioContext
\* The host calls of the graph construction, in program order.
InitCalls == <<"new AudioCtor", "createAnalyser", "createAnalyser",
               "createAnalyser", "createChannelSplitter",
               "splitter.connect(analyserL,0)", "splitter.connect(analyserR,1)">>
InitFailPoints == 0..Len(InitCalls)
InitialCtxStates == {"suspended", "running"}

\* The state the module and host are in, as a record the operations transform.
Cur == [audioContext |-> audioContext, analyser |-> analyser,
        analyserL |-> analyserL, analyserR |-> analyserR, splitter |-> splitter,
        dataArray |-> dataArray, dataArrayL |-> dataArrayL,
        dataArrayR |-> dataArrayR, isAudioContextReady |-> isAudioContextReady,
        nCtx |-> nCtx, analyserNodes |-> analyserNodes,
        nSplitters |-> nSplitters, readySets |-> readySets,
        ctxState |-> ctxState, edges |-> edges]

\* Outcome of a call that changes nothing.
Quiet(ret, logs) == [st |-> Cur, ret |-> ret, threw |-> FALSE,
                     calls |-> <<>>, logs |-> logs]

\* Lines 27-52 with host call number f throwing (0: none); s0 is the state the
\* host gives the new context.  Step k has completed iff Done(k).
BuildGraph(f, s0) ==
    LET Done(k) == f = 0 \/ k < f
        base == Len(analyserNodes)
        made == IF Done(4) THEN 3 ELSE IF Done(3) THEN 2 ELSE IF Done(2) THEN 1 ELSE 0
        an   == IF Done(2) THEN base + 1 ELSE analyser
        anL  == IF Done(3) THEN base + 2 ELSE analyserL
        anR  == IF Done(4) THEN base + 3 ELSE analyserR
        sp   == IF Done(5) THEN nSplitters + 1 ELSE splitter
        bins == BufferFor(FftSize)
    IN  [st |-> [audioContext |-> IF Done(1) THEN nCtx + 1 ELSE audioContext,
                 analyser |-> an, analyserL |-> anL, analyserR |-> anR,
                 splitter |-> sp,
                 dataArray  |-> IF Done(2) THEN bins ELSE dataArray,
                 dataArrayL |-> IF Done(3) THEN bins ELSE dataArrayL,
                 dataArrayR |-> IF Done(4) THEN bins ELSE dataArrayR,
                 isAudioContextReady |-> IF Done(7) THEN TRUE ELSE isAudioContextReady,
                 nCtx |-> IF Done(1) THEN nCtx + 1 ELSE nCtx,
                 analyserNodes |-> analyserNodes \o
                                   [i \in 1..made |-> [fftSize |-> FftSize]],
                 nSplitters |-> IF Done(5) THEN nSplitters + 1 ELSE nSplitters,
                 readySets |-> IF Done(7) THEN readySets + 1 ELSE readySets,
                 ctxState |-> IF Done(1) THEN s0 ELSE ctxState,
                 edges |-> edges
                   \cup (IF Done(6)
                         THEN {Edge(SplitterNodeOf(sp), AnalyserNodeOf(anL), 0)}
                         ELSE {})
                   \cup (IF Done(7)
                         THEN {Edge(SplitterNodeOf(sp), AnalyserNodeOf(anR), 1)}
                         ELSE {})],
         ret |-> IF Done(7) THEN nCtx + 1 ELSE NULL,
         threw |-> f # 0,
         calls |-> SubSeq(InitCalls, 1, IF f = 0 THEN Len(InitCalls) ELSE f),
         logs |-> IF Done(7) THEN <<"log:initialized">> ELSE <<>>]

\* Mutant: the graph is rebuilt on every call.
NeedsBuild_Always == TRUE
\* if (!audioContext): the graph has not been started
NeedsBuild == audioContext = NULL

\* initAudioContext(), lines 18-55
InitEffect(f, s0) ==
    IF ~HasWindow THEN Quiet(NULL, <<>>)
    ELSE IF ~NeedsBuild THEN Quiet(audioContext, <<>>)
    ELSE IF ~HasAudioCtor THEN Quiet(NULL, <<"error:unsupported">>)
    ELSE BuildGraph(f, s0)

\* The build runs (line 27 is reached): only then do its inputs matter.
WillBuild == HasWindow /\ NeedsBuild /\ HasAudioCtor
BuildFailInputs == IF WillBuild THEN InitFailPoints ELSE {0}
BuildStateInputs == IF WillBuild THEN InitialCtxStates ELSE {"suspended"}

\* Assign the part of the state initAudioContext can change.
Apply(st) ==
    /\ audioContext' = st.audioContext
    /\ analyser' = st.analyser
    /\ analyserL' = st.analyserL
    /\ analyserR' = st.analyserR
    /\ splitter' = st.splitter
    /\ dataArray' = st.dataArray
    /\ dataArrayL' = st.dataArrayL
    /\ dataArrayR' = st.dataArrayR
    /\ isAudioContextReady' = st.isAudioContextReady
    /\ nCtx' = st.nCtx
    /\ analyserNodes' = st.analyserNodes
    /\ nSplitters' = st.nSplitters
    /\ readySets' = st.readySets
    /\ ctxState' = st.ctxState

InitAudioContext ==
    \E f \in BuildFailInputs, s0 \in BuildStateInputs :
        LET r == InitEffect(f, s0) IN
        /\ Apply(r.st)
        /\ edges' = r.st.edges
        /\ last' = Last("initAudioContext", NULL, r.ret, r.threw, r.calls, r.logs)
        /\ UNCHANGED <<env, connectedElements, nResume,
                       srcCount, crossOrigin, onplay, held>>

\* --------------------------------------------------- connectAudioElement
\* The host calls of the wiring of one element, in program order (lines 70-79).
WireCalls == <<"createMediaElementSource", "source.connect(analyser)",
               "source.connect(splitter)", "analyser.connect(destination)">>
WireFailPoints == 0..Len(WireCalls)

\* Mutant: the wiring is attempted whatever initAudioContext gave.
GraphMissing_Unchecked(i) == FALSE
\* if (!ctx || !analyser || !splitter) return;   i is what initAudioContext gave
GraphMissing(i) == i.ret = NULL \/ i.st.analyser = NULL \/ i.st.splitter = NULL

\* Mutant: the registry is not consulted.
AlreadyConnected_Never(e) == FALSE
\* connectedElements.has(element)
AlreadyConnected(e) == e \in connectedElements

\* Mutant: the host lets an element have any number of sources.
HostSourceAllowed_Always(e) == TRUE
\* The host binds a media element to at most one MediaElementAudioSourceNode:
\* createMediaElementSource throws InvalidStateError on an element that has one.
HostSourceAllowed(e) == srcCount[e] = 0

\* The first host call of the wiring that must throw whatever the host does:
\* a method call on null (TypeError), connect(null), or a second source.
ForcedWireFail(e, i) ==
    IF i.ret = NULL \/ ~HostSourceAllowed(e) THEN 1
    ELSE IF i.st.analyser = NULL THEN 2
    ELSE IF i.st.splitter = NULL THEN 3
    ELSE 0

\* connectAudioElement returned before the try block (lines 58-63).
NotWired(i) ==
    [st |-> i.st, edges |-> i.st.edges, connected |-> connectedElements,
     srcCount |-> srcCount, crossOrigin |-> crossOrigin, onplay |-> onplay,
     threw |-> i.threw, calls |-> i.calls, logs |-> i.logs]

\* Mutant: the splitter is what gets connected to the output.
OutputNode_Splitter(i) == SplitterNodeOf(i.st.splitter)
\* The node line 79 connects to ctx.destination: the main analyser.
OutputNode(i) == AnalyserNodeOf(i.st.analyser)

\* Mutant: crossOrigin is overwritten whatever it held.
CrossOriginUnset_Always(e) == TRUE
\* !element.crossOrigin
CrossOriginUnset(e) == crossOrigin[e] = ""

\* The try block, lines 65-91, with host call number fw throwing (0: none).
Wire(e, i, fw) ==
    LET forced == ForcedWireFail(e, i)
        w == IF forced = 0 THEN fw
             ELSE IF fw = 0 \/ forced < fw THEN forced ELSE fw
        Done(k) == w = 0 \/ k < w
        src == SourceNodeOf(e, srcCount[e] + 1)
        an == AnalyserNodeOf(i.st.analyser)
    IN  [st |-> i.st,
         edges |-> i.st.edges
            \cup (IF Done(2) THEN {Edge(src, an, 0)} ELSE {})
            \cup (IF Done(3) THEN {Edge(src, SplitterNodeOf(i.st.splitter), 0)} ELSE {})
            \cup (IF Done(4) THEN {Edge(OutputNode(i), Destination, 0)} ELSE {}),
         connected |-> IF Done(4) THEN connectedElements \cup {e}
                       ELSE connectedElements,
         srcCount |-> IF Done(1) THEN [srcCount EXCEPT ![e] = @ + 1] ELSE srcCount,
         crossOrigin |-> IF CrossOriginUnset(e)
                         THEN [crossOrigin EXCEPT ![e] = "anonymous"]
                         ELSE crossOrigin,
         onplay |-> IF Done(4) THEN [onplay EXCEPT ![e] = "resume"] ELSE onplay,
         threw |-> FALSE,
         calls |-> i.calls \o SubSeq(WireCalls, 1, IF w = 0 THEN Len(WireCalls) ELSE w),
         logs |-> i.logs \o (IF Done(4) THEN <<"log:connected">>
                             ELSE <<"warn:connect-error">>)]

\* connectAudioElement(element), lines 57-92
ConnectEffect(e, fi, s0, fw) ==
    LET i == InitEffect(fi, s0) IN
    IF i.threw THEN NotWired(i)
    ELSE IF GraphMissing(i) THEN NotWired(i)
    ELSE IF AlreadyConnected(e) THEN NotWired(i)
    ELSE Wire(e, i, fw)

ConnectAudioElement(e) ==
    \E fi \in BuildFailInputs, s0 \in BuildStateInputs, fw \in WireFailPoints :
        LET r == ConnectEffect(e, fi, s0, fw) IN
        /\ Apply(r.st)
        /\ edges' = r.edges
        /\ connectedElements' = r.connected
        /\ srcCount' = r.srcCount
        /\ crossOrigin' = r.crossOrigin
        /\ onplay' = r.onplay
        /\ last' = Last("connectAudioElement", e, NULL, r.threw, r.calls, r.logs)
        /\ UNCHANGED <<env, nResume, held>>

\* ---------------------------------------------------- resumeAudioContext
\* Mutant: the state of the context is not looked at.
ShouldResume_AnyState == audioContext # NULL
\* audioContext && audioContext.state === 'suspended'
ShouldResume == audioContext # NULL /\ ctxState = "suspended"

\* The body of resumeAudioContext (lines 129-131): the host calls it makes.
ResumeCalls == IF ShouldResume THEN <<"resume">> ELSE <<>>

\* What the body does to the host: audioContext.resume() is fire-and-forget.
ResumeApply(calls) == nResume' = nResume + Len(calls)

ResumeAudioContext ==
    /\ ShouldResume => nResume < MaxResume
    /\ ResumeApply(ResumeCalls)
    /\ last' = Last("resumeAudioContext", NULL, NULL, FALSE, ResumeCalls, <<>>)
    /\ UNCHANGED <<env, moduleVars, nCtx, analyserNodes, nSplitters, readySets,
                   ctxState, edges, srcCount, crossOrigin, onplay, held>>

\* The element starts playing: the host calls element.onplay.  The handler the
\* module installs (lines 84-87) logs and calls resumeAudioContext().
\* Mutant: the handler resumes on the first playback start only.
OnPlayCalls_Once(e) == IF onplay[e] = "resume" /\ nResume = 0 THEN ResumeCalls ELSE <<>>
OnPlayCalls(e) == IF onplay[e] = "resume" THEN ResumeCalls ELSE <<>>
OnPlayLogs(e) == IF onplay[e] = "resume" THEN <<"log:playing">> ELSE <<>>

PlayEvent(e) ==
    /\ OnPlayCalls(e) # <<>> => nResume < MaxResume
    /\ ResumeApply(OnPlayCalls(e))
    /\ last' = Last("play", e, NULL, FALSE, OnPlayCalls(e), OnPlayLogs(e))
    /\ UNCHANGED <<env, moduleVars, nCtx, analyserNodes, nSplitters, readySets,
                   ctxState, edges, srcCount, crossOrigin, onplay, held>>

\* The host changes audioContext.state: a suspended context starts running
\* (a resume completes), a running context is suspended (an interruption, or
\* a holder of the context suspends it).
HostStateChange ==
    /\ \/ ctxState = "suspended" /\ ctxState' = "running"
       \/ ctxState = "running" /\ ctxState' = "suspended"
    /\ last' = Last("host", NULL, NULL, FALSE, <<>>, <<>>)
    /\ UNCHANGED <<env, moduleVars, nCtx, analyserNodes, nSplitters, readySets,
                   nResume, edges, srcCount, crossOrigin, onplay, held>>

\* ----------------------------------------------------------- extraction
\* The spectra the host reports: bin i (from 0) holds (base + step * i) mod 256.
Spectra == {<<255, 0>>}
HostBin(p, i) == (p[1] + p[2] * (i - 1)) % ByteLimit
HostBins(p, n) == IF p[2] = 0 THEN (IF n = 0 THEN <<>> ELSE << Run(n, HostBin(p, 1)) >>)
                  ELSE Encode([i \in 1..n |-> HostBin(p, i)], 1, n)

Min(a, b) == IF a < b THEN a ELSE b

\* node.getByteFrequencyData(buf): the first min(length, frequencyBinCount)
\* bytes of buf are overwritten, the rest are kept.
GetByteFrequencyData(node, buf, p) ==
    LET n == FrequencyBinCount(analyserNodes[node].fftSize)
        m == Min(n, ArrayLength(buf))
    IN  Join(TakeBytes(HostBins(p, n), m), DropBytes(buf, m))

\* Mutant: the summation starts at the second byte.
ArraySum_SkipFirst(a) ==
    SumRange([k \in 1..Len(a) |-> a[k].n * a[k].v], 1, Len(a))
        - (IF a = <<>> THEN 0 ELSE a[1].v)
\* The sum of the bytes of a.  The code adds them one by one from the left;
\* the sums are integers far below 2^53, so no addition rounds and a run of n
\* bytes v adds n * v.
ArraySum(a) == SumRange([k \in 1..Len(a) |-> a[k].n * a[k].v], 1, Len(a))

\* A JavaScript number that is a quotient of two integers, kept exact.
Ratio(num, den) == [num |-> num, den |-> den]
Zero == Ratio(0, 1)

\* getAudioData(), lines 94-98: the contents of the mono buffer after the
\* call, the host calls made, and the array returned.
MonoMissing == analyser = NULL \/ dataArray = NullArray
AudioData(p) == IF MonoMissing THEN <<>>
                ELSE GetByteFrequencyData(analyser, dataArray, p)
AudioDataCalls == IF MonoMissing THEN <<>> ELSE <<"getByteFrequencyData">>
\* Mutant: a copy of the buffer is returned.
AudioDataRef_Copy(p) == RefTo("new", AudioData(p))
\* new Uint8Array(0) (line 95), or the buffer itself (line 97)
AudioDataRef(p) == IF MonoMissing THEN RefTo("new", <<>>)
                   ELSE RefTo("dataArray", <<>>)

\* The bytes a caller reads through r.
Deref(r) == IF r.ref = "dataArray" THEN dataArray ELSE r.bytes

\* Mutant: getAudioData builds the graph when it finds none.
GetAudioData_LazyInit(p, keep) ==
    LET r == InitEffect(0, "suspended") IN
    /\ Apply(r.st)
    /\ edges' = r.st.edges
    /\ last' = Last("getAudioData", p, RefTo("dataArray", <<>>), FALSE, r.calls, r.logs)
    /\ UNCHANGED <<env, connectedElements, nResume, srcCount, crossOrigin,
                   onplay, held>>
\* getAudioData() with the host reporting spectrum p; keep: the caller keeps
\* the array it is given.
GetAudioData(p, keep) ==
    /\ dataArray' = IF MonoMissing THEN dataArray ELSE AudioData(p)
    /\ held' = IF keep THEN AudioDataRef(p) ELSE held
    /\ last' = Last("getAudioData", p, AudioDataRef(p), FALSE, AudioDataCalls, <<>>)
    /\ UNCHANGED <<env, audioContext, analyser, analyserL, analyserR, splitter,
                   dataArrayL, dataArrayR, isAudioContextReady,
                   connectedElements, hostVars>>

\* Mutant: the mean of an empty snapshot is computed like any other.
AverageVolume_NoEmptyCheck(data) == Ratio(ArraySum(data), ArrayLength(data))
\* getAverageVolume(), lines 117-126
AverageVolume(data) == IF ArrayLength(data) = 0 THEN Zero
                       ELSE Ratio(ArraySum(data), ArrayLength(data))

GetAverageVolume(p) ==
    /\ dataArray' = IF MonoMissing THEN dataArray ELSE AudioData(p)
    /\ last' = Last("getAverageVolume", p, AverageVolume(AudioData(p)),
                    FALSE, AudioDataCalls, <<>>)
    /\ UNCHANGED <<env, audioContext, analyser, analyserL, analyserR, splitter,
                   dataArrayL, dataArrayR, isAudioContextReady,
                   connectedElements, hostVars, held>>

\* getStereoData(), lines 100-115
StereoMissing == analyserL = NULL \/ analyserR = NULL
                 \/ dataArrayL = NullArray \/ dataArrayR = NullArray
\* Mutant: the early return carries one channel only.
StereoDefault_LeftOnly == [left |-> Zero]
\* { left: 0, right: 0 } (line 102)
StereoDefault == [left |-> Zero, right |-> Zero]

GetStereoData(pL, pR) ==
    IF StereoMissing
    THEN /\ last' = Last("getStereoData", <<pL, pR>>, StereoDefault,
                         FALSE, <<>>, <<>>)
         /\ UNCHANGED <<env, moduleVars, hostVars, held>>
    ELSE LET newL == GetByteFrequencyData(analyserL, dataArrayL, pL)
             newR == GetByteFrequencyData(analyserR, dataArrayR, pR)
         IN  /\ dataArrayL' = newL
             /\ dataArrayR' = newR
             /\ last' = Last("getStereoData", <<pL, pR>>,
                             [left |-> Ratio(ArraySum(newL), ArrayLength(newL)),
                              right |-> Ratio(ArraySum(newR), ArrayLength(newR))],
                             FALSE,
                             <<"getByteFrequencyData", "getByteFrequencyData">>,
                             <<>>)
             /\ UNCHANGED <<env, audioContext, analyser, analyserL, analyserR,
                            splitter, dataArray, isAudioContextReady,
                            connectedElements, hostVars, held>>

\* ------------------------------------------------------- specification
\* Module load (lines 3-16); the host environment and the elements' attributes
\* are whatever the page set up.
Init ==
    /\ env \in {"nowindow", "noctor", "ok"}
    /\ audioContext = NULL
    /\ analyser = NULL
    /\ analyserL = NULL
    /\ analyserR = NULL
    /\ splitter = NULL
    /\ dataArray = NullArray
    /\ dataArrayL = NullArray
    /\ dataArrayR = NullArray
    /\ isAudioContextReady = FALSE
    /\ connectedElements = {}
    /\ nCtx = 0
    /\ analyserNodes = <<>>
    /\ nSplitters = 0
    /\ readySets = 0
    /\ ctxState = "none"
    /\ nResume = 0
    /\ edges = {}
    /\ srcCount = [e \in Elements |-> 0]
    /\ crossOrigin \in [Elements -> {"", "use-credentials"}]
    /\ onplay = [e \in Elements |-> "none"]
    /\ held = NoRef
    /\ last = Last("load", NULL, NULL, FALSE, <<>>, <<>>)

Next ==
    \/ InitAudioContext
    \/ \E e \in Elements : ConnectAudioElement(e)
    \/ ResumeAudioContext
    \/ \E e \in Elements : PlayEvent(e)
    \/ HostStateChange
    \/ \E p \in Spectra : GetAudioData(p, FALSE)
    \/ \E p \in Spectra : GetAverageVolume(p)
    \/ \E pL \in Spectra, pR \in Spectra : GetStereoData(pL, pR)

Spec == Init /\ [][Next]_vars

\* The module built and polled by a caller that keeps snapshots, no element
\* being connected, with the host reporting a wider choice of spectra:
\* silence, full scale, a middle level, and the ramp 10, 20, 30, ... (mod 256).
DataSpectra == {<<0, 0>>, <<255, 0>>, <<128, 0>>, <<10, 10>>}

InitData == Init /\ env = "ok"

NextData ==
    \/ InitAudioContext
    \/ \E p \in DataSpectra, keep \in BOOLEAN : GetAudioData(p, keep)
    \/ \E p \in DataSpectra : GetAverageVolume(p)
    \/ \E pL \in Spectra, pR \in Spectra : GetStereoData(pL, pR)

SpecData == InitData /\ [][NextData]_vars

\* ------------------------------------------------------------- claims
SourcesOf(e) == {x.from : x \in {y \in edges : y.from.kind = "source" /\ y.from.el = e}}
Exported == {"initAudioContext", "connectAudioElement", "getAudioData",
             "getStereoData", "getAverageVolume", "resumeAudioContext"}

\* C1: however often initAudioContext is called, at most one context, one
\* splitter and three analysers are ever constructed, and exactly those once a
\* call has completed the build; a call made when the graph is built returns
\* that context and constructs and connects nothing; the ready flag is set at
\* most once and never goes back to false.
C1_InitIdempotent ==
    /\ [](/\ nCtx <= 1 /\ Len(analyserNodes) <= 3 /\ nSplitters <= 1
          /\ readySets <= 1
          /\ (last.op = "initAudioContext" /\ env = "ok" /\ ~last.threw)
                => (nCtx = 1 /\ last.ret = audioContext /\ audioContext # NULL)
          /\ isAudioContextReady
                => (nCtx = 1 /\ Len(analyserNodes) = 3 /\ nSplitters = 1
                    /\ readySets = 1 /\ audioContext # NULL))
    /\ [][/\ isAudioContextReady => isAudioContextReady'
          /\ (isAudioContextReady /\ last'.op = "initAudioContext")
                => /\ last'.ret = audioContext
                   /\ ~last'.threw
                   /\ last'.calls = <<>>
                   /\ UNCHANGED <<moduleVars, hostVars>>]_vars
\* a call of initAudioContext made after the build: it made no host call
C1_Witness ==
    /\ last.op = "initAudioContext" /\ last.calls = <<>>
    /\ isAudioContextReady /\ last.ret = audioContext /\ nCtx = 1

\* C2: connectAudioElement(A) on an element already in the registry changes
\* nothing: no source, no connection, no registry change, crossOrigin and
\* onplay untouched, nothing logged, nothing thrown.
C2_ReconnectNoOp ==
    [][\A e \in Elements :
          (e \in connectedElements /\ last'.op = "connectAudioElement"
                                   /\ last'.arg = e)
             => /\ UNCHANGED <<moduleVars, hostVars>>
                /\ srcCount'[e] = 1
                /\ last'.calls = <<>>
                /\ last'.logs = <<>>
                /\ ~last'.threw]_vars
C2_Witness ==
    /\ last.op = "connectAudioElement" /\ last.arg \in connectedElements
    /\ last.calls = <<>> /\ last.logs = <<>>

\* C3 (as claimed): after a connectAudioElement whose wiring failed (the
\* warning was logged), the element is not in the registry, no connection made
\* for it remains in the graph and no playback observer is installed.
C3_FailedWiringLeavesNothing ==
    (last.op = "connectAudioElement" /\ last.logs # <<>>
        /\ last.logs[Len(last.logs)] = "warn:connect-error")
      => /\ last.arg \notin connectedElements
         /\ SourcesOf(last.arg) = {}
         /\ onplay[last.arg] # "resume"

\* C4 (as claimed): no exported operation propagates an error to its caller.
C4_NeverThrows == last.op \in Exported => ~last.threw

C6_NoWindowNoEffect ==
    [][(env = "nowindow" /\ last'.op = "initAudioContext")
          => /\ last'.ret = NULL
             /\ ~last'.threw
             /\ last'.calls = <<>>
             /\ last'.logs = <<>>
             /\ ~isAudioContextReady'
             /\ nCtx' = 0 /\ analyserNodes' = <<>> /\ nSplitters' = 0
             /\ dataArray' = NullArray /\ dataArrayL' = NullArray
             /\ dataArrayR' = NullArray
             /\ UNCHANGED <<moduleVars, hostVars>>]_vars
C6_Witness ==
    env = "nowindow" /\ last.op = "initAudioContext" /\ last.ret = NULL

\* C7: with a window but no constructor, initAudioContext logs an error, does
\* not throw, returns null, constructs nothing and leaves the ready flag false.
C7_NoCtorLogsError ==
    [][(env = "noctor" /\ last'.op = "initAudioContext")
          => /\ last'.logs = <<"error:unsupported">>
             /\ ~last'.threw
             /\ last'.ret = NULL
             /\ last'.calls = <<>>
             /\ ~isAudioContextReady'
             /\ nCtx' = 0 /\ analyserNodes' = <<>> /\ nSplitters' = 0
             /\ UNCHANGED <<moduleVars, hostVars>>]_vars
C7_Witness ==
    /\ env = "noctor" /\ last.op = "initAudioContext"
    /\ last.logs = <<"error:unsupported">> /\ last.ret = NULL

\* C8: when the graph cannot be initialised (no window, or no constructor),
\* connectAudioElement leaves the registry, the element's crossOrigin and
\* onplay alone, creates no source, logs no connection warning (it logs
\* nothing without a window, and only initAudioContext's "not supported" error
\* without a constructor), and throws nothing.
C8_ConnectWithoutGraph ==
    [][(env # "ok" /\ last'.op = "connectAudioElement")
          => /\ connectedElements' = connectedElements
             /\ crossOrigin' = crossOrigin
             /\ onplay' = onplay
             /\ srcCount' = srcCount
             /\ edges' = edges
             /\ last'.calls = <<>>
             /\ last'.logs = IF env = "nowindow" THEN <<>>
                             ELSE <<"error:unsupported">>
             /\ ~last'.threw]_vars
\* connecting an element whose crossOrigin is unset, in such an environment
C8_Witness ==
    /\ env # "ok" /\ last.op = "connectAudioElement"
    /\ crossOrigin[last.arg] = ""

\* C9: resumeAudioContext calls resume() exactly when the context exists and
\* its state is "suspended", and changes no module state either way.
C9_ResumeIffSuspended ==
    [][last'.op = "resumeAudioContext"
          => /\ (last'.calls = <<"resume">>)
                   <=> (audioContext # NULL /\ ctxState = "suspended")
             /\ last'.calls \in {<<>>, <<"resume">>}
             /\ nResume' = nResume + Len(last'.calls)
             /\ ~last'.threw
             /\ UNCHANGED <<moduleVars, nCtx, analyserNodes, nSplitters,
                            readySets, ctxState, edges, srcCount, crossOrigin,
                            onplay>>]_vars
\* a call while the context runs, after an earlier request was issued
C9_Witness ==
    /\ last.op = "resumeAudioContext" /\ last.calls = <<>>
    /\ audioContext # NULL /\ ctxState = "running" /\ nResume >= 1

\* C10: every playback start of a connected element that happens while the
\* context is suspended issues a resume request.
C10_PlayResumes ==
    [][\A e \in Elements :
          (last'.op = "play" /\ last'.arg = e /\ e \in connectedElements
              /\ audioContext # NULL /\ ctxState = "suspended")
             => /\ last'.calls = <<"resume">>
                /\ nResume' = nResume + 1]_vars
\* a playback start that issued a request when one had been issued before
C10_Witness ==
    /\ last.op = "play" /\ last.calls = <<"resume">>
    /\ last.arg \in connectedElements /\ nResume >= 2

\* C11 (as claimed): every getAudioData call returns exactly 256 bins,
\* whenever it is made.
C11_Always256 ==
    last.op = "getAudioData" => ArrayLength(Deref(last.ret)) = 256

\* C11 (amended): a getAudioData call made once the main analyser and its
\* buffer exist returns exactly 256 bins, whatever was connected before; a
\* call made before that returns a zero-length array.
C11_BinsOnceBuilt ==
    last.op = "getAudioData"
      => ArrayLength(Deref(last.ret))
            = IF analyser = NULL \/ dataArray = NullArray THEN 0 ELSE 256
\* a call after an element was connected
C11_Witness ==
    /\ last.op = "getAudioData" /\ connectedElements # {}
    /\ ArrayLength(Deref(last.ret)) = 256

\* C12: while no graph has been initialised (there is no context),
\* getAudioData returns a zero-length array and getAverageVolume returns 0.
C12_EmptyBeforeInit ==
    /\ (last.op = "getAudioData" /\ audioContext = NULL)
          => /\ last.ret.ref = "new"
             /\ Deref(last.ret) = <<>>
             /\ ArrayLength(Deref(last.ret)) = 0
             /\ last.calls = <<>>
    /\ (last.op = "getAverageVolume" /\ audioContext = NULL)
          => /\ last.ret = Ratio(0, 1)
             /\ last.calls = <<>>
\* getAverageVolume where a context could have been built and none was
C12_Witness ==
    /\ last.op = "getAverageVolume" /\ audioContext = NULL /\ env = "ok"
    /\ last.ret = Ratio(0, 1)

\* C13: getStereoData always returns both fields: { left: 0, right: 0 }, with
\* no host call made, while the left or the right analyser is missing (in
\* particular before any initialisation), and otherwise the means of the two
\* channels, both extracted in that call.
C13_StereoWhole ==
    last.op = "getStereoData"
      => /\ DOMAIN last.ret = {"left", "right"}
         /\ IF analyserL = NULL \/ analyserR = NULL
            THEN /\ last.ret.left = Ratio(0, 1)
                 /\ last.ret.right = Ratio(0, 1)
                 /\ last.calls = <<>>
            ELSE /\ Len(last.calls) = 2
                 /\ dataArrayL = HostBins(last.arg[1], 256)
                 /\ dataArrayR = HostBins(last.arg[2], 256)
                 /\ last.ret.left = Ratio(ArraySum(dataArrayL), 256)
                 /\ last.ret.right = Ratio(ArraySum(dataArrayR), 256)
\* a call on a graph whose build stopped between the left and right analysers
C13_Witness ==
    /\ last.op = "getStereoData" /\ analyserL # NULL /\ analyserR = NULL
    /\ last.ret = [left |-> Ratio(0, 1), right |-> Ratio(0, 1)]

\* C14: getAverageVolume returns the sum of the bins of that call's snapshot
\* divided by their number: the bins are the 256 the host reports at the call,
\* the mean is 0 when all are 0 and 255 when all are 255, and it is 0 when the
\* snapshot is empty.
C14_ArithmeticMean ==
    last.op = "getAverageVolume"
      => IF analyser = NULL \/ dataArray = NullArray
         THEN last.ret = Ratio(0, 1)
         ELSE /\ dataArray = HostBins(last.arg, 256)
              /\ last.ret.den = 256
              /\ last.ret.num
                    = SumRange([i \in 1..256 |-> HostBin(last.arg, i)], 1, 256)
              /\ dataArray = << Run(256, 0) >> => last.ret.num = 0
              /\ dataArray = << Run(256, 255) >>
                    => last.ret.num = 255 * last.ret.den
\* the mean of the ramp: bins that differ from one another
C14_Witness ==
    /\ last.op = "getAverageVolume" /\ last.arg = <<10, 10>>
    /\ Len(dataArray) = 256
    /\ last.ret.den = 256 /\ last.ret.num > 0

\* C15: the only connection to the context's destination comes from the main
\* analyser; the left and right analysers and the splitter are never
\* connected to it.
C15_OnlyMainToOutput ==
    \A x \in edges :
        x.to = Destination
          => /\ analyser # NULL
             /\ x.from = AnalyserNodeOf(analyser)
             /\ x.from.kind # "splitter"
             /\ analyserL # NULL => x.from # AnalyserNodeOf(analyserL)
             /\ analyserR # NULL => x.from # AnalyserNodeOf(analyserR)
\* an element is connected: the main analyser feeds the destination
C15_Witness ==
    /\ connectedElements # {}
    /\ analyser # NULL
    /\ Edge(AnalyserNodeOf(analyser), Destination, 0) \in edges

\* C16: a connectAudioElement that reaches the wiring of an element not in
\* the registry leaves the element's crossOrigin at "anonymous" if it was
\* unset and at its former value otherwise, whether or not the wiring then
\* succeeds.
C16_CrossOriginDefault ==
    [][\A e \in Elements :
          (/\ last'.op = "connectAudioElement" /\ last'.arg = e
           /\ e \notin connectedElements
           /\ \E k \in 1..Len(last'.calls) :
                  last'.calls[k] = "createMediaElementSource")
             => /\ crossOrigin'[e] = IF crossOrigin[e] = "" THEN "anonymous"
                                     ELSE crossOrigin[e]
                /\ \A o \in Elements \ {e} : crossOrigin'[o] = crossOrigin[o]]_vars
\* an element that came with a crossOrigin of its own has been connected
C16_Witness ==
    /\ last.op = "connectAudioElement" /\ last.arg \in connectedElements
    /\ last.logs # <<>> /\ last.logs[Len(last.logs)] = "log:connected"
    /\ crossOrigin[last.arg] = "use-credentials"

\* C17: each snapshot buffer, once created, keeps its length through every
\* operation, and that length is the frequency bin count (half the window)
\* of its own analyser: mono/main, left/left, right/right.
C17_BufferLengths ==
    [][/\ analyser' # NULL
          => /\ dataArray' # NullArray
             /\ ArrayLength(dataArray')
                   = analyserNodes'[analyser'].fftSize \div 2
       /\ analyserL' # NULL
          => /\ dataArrayL' # NullArray
             /\ ArrayLength(dataArrayL')
                   = analyserNodes'[analyserL'].fftSize \div 2
       /\ analyserR' # NULL
          => /\ dataArrayR' # NullArray
             /\ ArrayLength(dataArrayR')
                   = analyserNodes'[analyserR'].fftSize \div 2
       /\ dataArray # NullArray
          => ArrayLength(dataArray') = ArrayLength(dataArray)
       /\ dataArrayL # NullArray
          => ArrayLength(dataArrayL') = ArrayLength(dataArrayL)
       /\ dataArrayR # NullArray
          => ArrayLength(dataArrayR') = ArrayLength(dataArrayR)]_vars
\* the built graph after a stereo extraction filled the left and right buffers
C17_Witness ==
    /\ isAudioContextReady /\ last.op = "getStereoData"
    /\ dataArrayL = HostBins(last.arg[1], 256)
    /\ ArrayLength(dataArray) = 256
    /\ ArrayLength(dataArrayL) = 256 /\ ArrayLength(dataArrayR) = 256

\* C18: once the main analyser and its buffer exist, getAudioData returns the
\* mono buffer itself, holding the bins the host reports at that call; an
\* array a caller kept from an earlier call holds, after any later
\* getAudioData or getAverageVolume, the bins of that later call; and
\* getStereoData leaves the mono buffer as it was.
C18_ReusableBuffer ==
    [][/\ (last'.op = "getAudioData" /\ analyser # NULL /\ dataArray # NullArray)
          => /\ last'.ret.ref = "dataArray"
             /\ dataArray' = HostBins(last'.arg, 256)
       /\ (held.ref = "dataArray"
              /\ last'.op \in {"getAudioData", "getAverageVolume"})
          => /\ held'.ref = "dataArray"
             /\ (IF held'.ref = "dataArray" THEN dataArray' ELSE held'.bytes)
                   = HostBins(last'.arg, 256)
       /\ last'.op = "getStereoData"
          => /\ dataArray' = dataArray
             /\ held' = held]_vars
\* a caller holds the array of an earlier call, and a later getAverageVolume
\* has put the ramp in it
C18_Witness ==
    /\ held.ref = "dataArray"
    /\ last.op = "getAverageVolume" /\ last.arg = <<10, 10>>
    /\ Len(Deref(held)) = 256
    /\ Deref(held) = HostBins(<<10, 10>>, 256)

\* C19 (as claimed): the ready flag is true exactly when the graph is fully
\* built, and the context is never non-null while the flag is false or a node
\* or buffer is missing.
C19_ReadyIffBuilt ==
    LET built == /\ audioContext # NULL /\ analyser # NULL
                 /\ analyserL # NULL /\ analyserR # NULL /\ splitter # NULL
                 /\ dataArray # NullArray /\ dataArrayL # NullArray
                 /\ dataArrayR # NullArray
    IN  /\ isAudioContextReady <=> built
        /\ audioContext # NULL => (isAudioContextReady /\ built)

\* C20: getAudioData, getStereoData, getAverageVolume and resumeAudioContext
\* construct nothing and leave the context, the nodes, the existence of the
\* buffers, the ready flag, the registry and the connections as they were;
\* the context comes to exist, and the ready flag becomes true, only in a
\* step of initAudioContext or connectAudioElement; and after a
\* connectAudioElement whose wiring failed the graph it initialised is still
\* there, a ready flag that was true or that this call set being true.
C20_OnlyInitBuilds ==
    [][/\ last'.op \in {"getAudioData", "getStereoData", "getAverageVolume",
                       "resumeAudioContext"}
          => /\ UNCHANGED <<audioContext, analyser, analyserL, analyserR,
                            splitter, isAudioContextReady, connectedElements,
                            edges, nCtx, analyserNodes, nSplitters, readySets,
                            srcCount, onplay>>
             /\ (dataArray' = NullArray) <=> (dataArray = NullArray)
             /\ (dataArrayL' = NullArray) <=> (dataArrayL = NullArray)
             /\ (dataArrayR' = NullArray) <=> (dataArrayR = NullArray)
       /\ ((audioContext = NULL /\ audioContext' # NULL)
              \/ (~isAudioContextReady /\ isAudioContextReady'))
          => last'.op \in {"initAudioContext", "connectAudioElement"}
       /\ (last'.op = "connectAudioElement" /\ last'.logs # <<>>
              /\ last'.logs[Len(last'.logs)] = "warn:connect-error")
          => /\ audioContext' # NULL /\ analyser' # NULL /\ splitter' # NULL
             /\ (isAudioContextReady \/ audioContext = NULL)
                   => isAudioContextReady']_vars
\* a connectAudioElement that built the graph and then failed to wire
C20_Witness ==
    /\ last.op = "connectAudioElement"
    /\ last.logs = <<"log:initialized", "warn:connect-error">>
    /\ last.calls[1] = "new AudioCtor"
    /\ isAudioContextReady /\ nCtx = 1 /\ connectedElements = {}

====
